---------------------------- MODULE Spec2Model ----------------------------
(***************************************************************************)
(* A model of qtcre-rs, a read-only parser and lookup engine for Qt's      *)
(* binary resource container (.rcc, format versions up to 3).              *)
(*                                                                         *)
(* Text is a sequence of UTF-16 code units (naturals below 2^16); every    *)
(* character used here lies in the Basic Multilingual Plane, so a Rust     *)
(* char, its UTF-16 encoding and its index step coincide.  A byte image is *)
(* a sequence of naturals below 256; the byte at offset o is bytes[o + 1]. *)
(* Paths follow the Unix rules of std::path (the build target is Unix,     *)
(* usize is 64 bits wide).                                                 *)
(***************************************************************************)
EXTENDS Integers, Sequences, FiniteSets, TLC

VARIABLES
  bytes,    \* the byte image the parse session borrows (<<>> before any)
  reader,   \* the parse session: ResourceReader's fields, or NoReader
  build,    \* "debug" (overflow checks on) or "release" (wrapping)
  op,       \* the operation last performed
  arg,      \* its input
  ret       \* its result

vars == <<bytes, reader, build, op, arg, ret>>

(***************************************************************************)
(* Results.  tag is "ok", "err" or "panic"; err is the Error variant; io   *)
(* is the kind of the underlying read failure the error was made from.     *)
(***************************************************************************)
Nothing == <<>>

NoReader == [open |-> FALSE]

Ok(v) == [tag |-> "ok", val |-> v, err |-> "", io |-> "", info |-> Nothing]

ErrWith(e, kind, info) ==
  [tag |-> "err", val |-> Nothing, err |-> e, io |-> kind, info |-> info]

Err(e, kind) == ErrWith(e, kind, Nothing)

Panic == [tag |-> "panic", val |-> Nothing, err |-> "", io |-> "", info |-> Nothing]

None == [some |-> FALSE, res |-> Nothing]

Some(x) == [some |-> TRUE, res |-> x]

IsOk(r) == r.tag = "ok"

\* `e?` and the statements after it: an error or a panic of e is the
\* function's result, a value goes on to the rest.
Try(r, Rest(_)) == IF IsOk(r) THEN Rest(r.val) ELSE r

\* `let v = e;` and the statements after it.
Let(e, Rest(_)) == Rest(e)

Builds == {"debug", "release"}

(***************************************************************************)
(* Fixed-width unsigned arithmetic.  A u16 is a natural below 2^16.  A u32 *)
(* is a word [hi, lo] of two 16-bit halves, standing for hi * 2^16 + lo,   *)
(* so that all 32 bits are kept.  A usize (64 bits on the target) only     *)
(* ever addresses the image: it is a natural, and sums of them saturate at *)
(* Huge, far beyond the end of any image.                                  *)
(***************************************************************************)
RECURSIVE Pow2(_)
Pow2(n) == IF n = 0 THEN 1 ELSE 2 * Pow2(n - 1)

U16 == Pow2(16)

Huge == Pow2(29)

RECURSIVE BitAnd(_, _)
BitAnd(a, b) ==
  IF a = 0 \/ b = 0 THEN 0
  ELSE (IF a % 2 = 1 /\ b % 2 = 1 THEN 1 ELSE 0) + 2 * BitAnd(a \div 2, b \div 2)

RECURSIVE BitXor(_, _)
BitXor(a, b) ==
  IF a = 0 THEN b
  ELSE IF b = 0 THEN a
  ELSE ((a + b) % 2) + 2 * BitXor(a \div 2, b \div 2)

BitOr(a, b) == a + b - BitAnd(a, b)

Word(hi, lo) == [hi |-> hi, lo |-> lo]

\* The word of a natural below 2^31.
W(n) == Word(n \div U16, n % U16)

Zero == W(0)

WordLt(x, y) == x.hi < y.hi \/ (x.hi = y.hi /\ x.lo < y.lo)

WordAnd(x, y) == Word(BitAnd(x.hi, y.hi), BitAnd(x.lo, y.lo))

WordXor(x, y) == Word(BitXor(x.hi, y.hi), BitXor(x.lo, y.lo))

\* u32 << n for n < 16: the bits shifted out are dropped, in every build.
WordShl(x, n) ==
  Word((x.hi * Pow2(n) + (x.lo * Pow2(n)) \div U16) % U16, (x.lo * Pow2(n)) % U16)

\* u32 >> n for n < 32.
WordShr(x, n) ==
  IF n >= 16 THEN Word(0, x.hi \div Pow2(n - 16))
  ELSE Word(x.hi \div Pow2(n), ((x.hi % Pow2(n)) * Pow2(16 - n)) + x.lo \div Pow2(n))

\* u32 / 2.
WordHalf(x) == WordShr(x, 1)

\* u32 + u32 and u32 * k (k below 2^15): a panic with overflow checks
\* ("debug"), wrapped without ("release").
Add32(bd, x, y) ==
  LET lo == x.lo + y.lo
      hi == x.hi + y.hi + lo \div U16
  IN  IF hi < U16 THEN Ok(Word(hi, lo % U16))
      ELSE IF bd = "debug" THEN Panic ELSE Ok(Word(hi % U16, lo % U16))

Mul32(bd, x, k) ==
  LET lo == x.lo * k
      hi == x.hi * k + lo \div U16
  IN  IF hi < U16 THEN Ok(Word(hi, lo % U16))
      ELSE IF bd = "debug" THEN Panic ELSE Ok(Word(hi % U16, lo % U16))

\* u32 as usize, and usize + usize.
AsUsize(x) == IF x.hi >= Pow2(13) THEN Huge ELSE x.hi * U16 + x.lo

UAdd(a, b) == IF a + b >= Huge THEN Huge ELSE a + b

(***************************************************************************)
(* utils.rs: the name hasher.                                              *)
(***************************************************************************)
HashShift == 4

HashHighMask == Word(61440, 0)       \* 0xf0000000

HashFold == 23

HashLowMask == Word(4095, 65535)     \* 0x0fffffff

\* The loop body without its last statement, `result &= 0x0fffffff`.
qt_hash_step_unmasked(bd, result, ch) ==
  Try(Add32(bd, WordShl(result, HashShift), Word(0, ch)), LAMBDA sum :
    Ok(WordXor(sum, WordShr(WordAnd(sum, HashHighMask), HashFold))))

\* One iteration of the loop body, on the running value `result`.
qt_hash_step(bd, result, ch) ==
  Try(Add32(bd, WordShl(result, HashShift), Word(0, ch)), LAMBDA sum :
    Ok(WordAnd(WordXor(sum, WordShr(WordAnd(sum, HashHighMask), HashFold)),
               HashLowMask)))

RECURSIVE qt_hash_loop(_, _, _, _)
qt_hash_loop(bd, chars, i, result) ==
  IF i > Len(chars) THEN Ok(result)
  ELSE Try(qt_hash_step(bd, result, chars[i]), LAMBDA next :
         qt_hash_loop(bd, chars, i + 1, next))

\* key is the text's UTF-16 encoding, chained a u32.
qt_hash(bd, key, chained) == qt_hash_loop(bd, key, 1, chained)

(***************************************************************************)
(* utils.rs: folding the Windows dialect of a path to POSIX.               *)
(***************************************************************************)
Slash == 47

Backslash == 92

Colon == 58

Dot == 46

\* The loop of str_to_unix_path from the i-th character on (1-based), with
\* `buf` as built so far; an empty buf means "nothing rewritten yet".
RECURSIVE str_to_unix_loop(_, _, _)
str_to_unix_loop(s, i, buf) ==
  IF i > Len(s) THEN buf
  ELSE IF i = 1 /\ Len(s) >= 2 /\ s[2] = Colon
    THEN \* skip the ':' and a separator that follows it
         LET j == IF Len(s) >= 3 /\ s[3] = Backslash THEN 4 ELSE 3
         IN  str_to_unix_loop(s, j, Append(buf, Slash))
  ELSE IF s[i] = Backslash
    THEN str_to_unix_loop(s, i + 1,
           Append(IF buf = <<>> THEN SubSeq(s, 1, i - 1) ELSE buf, Slash))
  ELSE IF buf # <<>>
    THEN str_to_unix_loop(s, i + 1, Append(buf, s[i]))
  ELSE str_to_unix_loop(s, i + 1, buf)

\* The buffer taken as the result even when nothing was written to it.
str_to_unix_path_owned(s) ==
  [borrowed |-> FALSE, path |-> str_to_unix_loop(s, 1, <<>>)]

\* The input taken as it is, whatever its dialect.
str_to_unix_path_verbatim(s) == [borrowed |-> TRUE, path |-> s]

\* Cow<Path>: borrowed (the input itself) or owned (the rewritten text).
str_to_unix_path(s) ==
  LET buf == str_to_unix_loop(s, 1, <<>>)
  IN  IF buf = <<>> THEN [borrowed |-> TRUE, path |-> s]
      ELSE [borrowed |-> FALSE, path |-> buf]

(***************************************************************************)
(* std::path on Unix and path-absolutize, as find uses them.               *)
(***************************************************************************)
\* The text between separators, empty pieces included.
RECURSIVE SplitAt(_, _, _, _)
SplitAt(s, i, cur, acc) ==
  IF i > Len(s) THEN Append(acc, cur)
  ELSE IF s[i] = Slash THEN SplitAt(s, i + 1, <<>>, Append(acc, cur))
  ELSE SplitAt(s, i + 1, Append(cur, s[i]), acc)

HasRoot(s) == Len(s) >= 1 /\ s[1] = Slash

\* Path::components: RootDir, CurDir (only a leading "." of a rootless
\* path), ParentDir and Normal; empty pieces and other "." are skipped.
RECURSIVE ComponentsOf(_, _, _, _)
ComponentsOf(pieces, i, first, acc) ==
  IF i > Len(pieces) THEN acc
  ELSE LET pc == pieces[i]
       IN  IF pc = <<>> THEN ComponentsOf(pieces, i + 1, first, acc)
           ELSE IF pc = <<Dot>> THEN
             IF first
             THEN ComponentsOf(pieces, i + 1, FALSE, Append(acc, [kind |-> "CurDir", name |-> pc]))
             ELSE ComponentsOf(pieces, i + 1, FALSE, acc)
           ELSE IF pc = <<Dot, Dot>>
             THEN ComponentsOf(pieces, i + 1, FALSE, Append(acc, [kind |-> "ParentDir", name |-> pc]))
           ELSE ComponentsOf(pieces, i + 1, FALSE, Append(acc, [kind |-> "Normal", name |-> pc]))

Components(s) ==
  IF HasRoot(s)
  THEN ComponentsOf(SplitAt(s, 1, <<>>, <<>>), 1, FALSE, <<[kind |-> "RootDir", name |-> <<Slash>>]>>)
  ELSE IF s = <<Dot>> \/ (Len(s) >= 2 /\ s[1] = Dot /\ s[2] = Slash)
  THEN ComponentsOf(SplitAt(s, 1, <<>>, <<>>), 1, TRUE, <<>>)
  ELSE ComponentsOf(SplitAt(s, 1, <<>>, <<>>), 1, FALSE, <<>>)

\* The Normal components, in order.
RECURSIVE NormalSegments(_, _)
NormalSegments(comps, i) ==
  IF i > Len(comps) THEN <<>>
  ELSE IF comps[i].kind = "Normal"
    THEN <<comps[i].name>> \o NormalSegments(comps, i + 1)
  ELSE NormalSegments(comps, i + 1)

\* absolutize_from("/"): the tokens kept below the root.  A rootless path
\* starts from the working directory "/", a ".." drops the last token and
\* never the root.
RECURSIVE AbsolutizeTokens(_, _, _)
AbsolutizeTokens(comps, i, tokens) ==
  IF i > Len(comps) THEN tokens
  ELSE IF comps[i].kind = "Normal"
    THEN AbsolutizeTokens(comps, i + 1, Append(tokens, comps[i].name))
  ELSE IF comps[i].kind = "ParentDir"
    THEN AbsolutizeTokens(comps, i + 1,
           IF tokens = <<>> THEN tokens ELSE SubSeq(tokens, 1, Len(tokens) - 1))
  ELSE AbsolutizeTokens(comps, i + 1, tokens)

RECURSIVE JoinTokens(_, _)
JoinTokens(tokens, i) ==
  IF i > Len(tokens) THEN <<>>
  ELSE (IF i = 1 THEN <<>> ELSE <<Slash>>) \o tokens[i] \o JoinTokens(tokens, i + 1)

absolutize_from_root(s) ==
  <<Slash>> \o JoinTokens(AbsolutizeTokens(Components(s), 1, <<>>), 1)

\* PathBuf::join: an absolute `name` replaces the path, anything else is
\* appended behind a separator.
PathJoin(base, name) ==
  IF HasRoot(name) THEN name
  ELSE IF base # <<>> /\ base[Len(base)] = Slash THEN base \o name
  ELSE base \o <<Slash>> \o name

\* Path equality compares components.
PathEq(a, b) == Components(a) = Components(b)

\* The normalisation find applies to its argument.
normalise(p) == absolutize_from_root(str_to_unix_path(p).path)

(***************************************************************************)
(* bytes.rs and error.rs: big-endian reads and the error they surface as.  *)
(***************************************************************************)
IoOk(v) == [ok |-> TRUE, val |-> v, kind |-> ""]

IoErr(kind) == [ok |-> FALSE, val |-> Nothing, kind |-> kind]

\* The big-endian value of the `width` bytes at `offset`, width 1 or 2.
RECURSIVE BigEndian(_, _, _)
BigEndian(b, offset, width) ==
  IF width = 0 THEN 0
  ELSE BigEndian(b, offset, width - 1) * 256 + b[offset + width]

\* The bytes taken least significant first.
RECURSIVE LittleEndian(_, _, _)
LittleEndian(b, offset, width) ==
  IF width = 0 THEN 0
  ELSE LittleEndian(b, offset + 1, width - 1) * 256 + b[offset + 1]

from_le_bytes(b, offset, width) ==
  IF width = 8
  THEN [hi |-> Word(LittleEndian(b, offset + 6, 2), LittleEndian(b, offset + 4, 2)),
        lo |-> Word(LittleEndian(b, offset + 2, 2), LittleEndian(b, offset, 2))]
  ELSE IF width = 4 THEN Word(LittleEndian(b, offset + 2, 2), LittleEndian(b, offset, 2))
  ELSE LittleEndian(b, offset, width)

\* T::from_be_bytes: a u64 is two words, a u32 is a word, a u16 or a u8 a
\* natural.
from_be_bytes(b, offset, width) ==
  IF width = 8
  THEN [hi |-> Word(BigEndian(b, offset, 2), BigEndian(b, offset + 2, 2)),
        lo |-> Word(BigEndian(b, offset + 4, 2), BigEndian(b, offset + 6, 2))]
  ELSE IF width = 4 THEN Word(BigEndian(b, offset, 2), BigEndian(b, offset + 2, 2))
  ELSE BigEndian(b, offset, width)

RECURSIVE BigEndian16Units(_, _, _)
BigEndian16Units(b, offset, count) ==
  IF count = 0 THEN <<>>
  ELSE Append(BigEndian16Units(b, offset, count - 1),
              BigEndian(b, offset + 2 * (count - 1), 2))

\* <[u8] as ReadFromOffset>::read_from_offset::<T>, size_of::<T>() = width.
read_from_offset(b, offset, width) ==
  IF offset + width > Len(b) THEN IoErr("UnexpectedEof")
  ELSE IoOk(from_be_bytes(b, offset, width))

\* Cursor<&[u8]>::read_exact of `width` bytes at position `pos`: the bytes
\* left are those from min(pos, len) on.  The value is the bytes read.
read_exact(b, pos, width) ==
  LET remaining == IF pos >= Len(b) THEN 0 ELSE Len(b) - pos
  IN  IF width > remaining THEN IoErr("UnexpectedEof")
      ELSE IoOk(SubSeq(b, pos + 1, pos + width))

\* ReadBytesExt::read_u16 and read_u32 on the cursor.
cursor_read(b, pos, width) ==
  Let(read_exact(b, pos, width), LAMBDA raw :
    IF raw.ok THEN IoOk(from_be_bytes(raw.val, 0, width)) ELSE raw)

\* Every failed read surfaced as Error::IO, as From<io::Error> does.
wrap_error_as_io(r) == IF r.ok THEN Ok(r.val) ELSE Err("IO", r.kind)

\* WrapError for io::Error (wrap_error and wrap_error_lazy alike).
wrap_error(r) ==
  IF r.ok THEN Ok(r.val)
  ELSE IF r.kind = "UnexpectedEof" THEN Err("OutOfBounds", r.kind)
  ELSE Err("IO", r.kind)

(***************************************************************************)
(* readers/header.rs: the header of a standalone container.                *)
(***************************************************************************)
RCC_FILE_HEADER_MAGIC == <<113, 114, 101, 115>>   \* b"qres"

SUPPORTED_FORMAT_VERSION == 3

\* The header once the magic has been checked and the version read: the
\* three offsets, then the flags word of a version 3 header.
header_fields(b, magic, version) ==
  Try(wrap_error(cursor_read(b, 8, 4)), LAMBDA struct :
  Try(wrap_error(cursor_read(b, 12, 4)), LAMBDA data :
  Try(wrap_error(cursor_read(b, 16, 4)), LAMBDA name :
  Try(IF ~WordLt(version, W(3))
      THEN Try(wrap_error(cursor_read(b, 20, 4)), LAMBDA flags : Ok(Some(flags)))
      ELSE Ok(None), LAMBDA overall_flags :
    Ok([magic          |-> magic,
        format_version |-> version,
        struct_offset  |-> AsUsize(struct),
        data_offset    |-> AsUsize(data),
        name_offset    |-> AsUsize(name),
        overall_flags  |-> overall_flags])))))

\* The decoder without its comparison of the magic.
RCCFileHeaderReader_new_unchecked(b) ==
  Try(wrap_error(read_exact(b, 0, 4)), LAMBDA magic :
    Try(wrap_error(cursor_read(b, 4, 4)), LAMBDA version :
      header_fields(b, magic, version)))

RCCFileHeaderReader_new(b) ==
  Try(wrap_error(read_exact(b, 0, 4)), LAMBDA magic :
    IF magic # RCC_FILE_HEADER_MAGIC
    THEN ErrWith("InvalidHeaderMagic", "",
                 [received |-> magic, expected |-> RCC_FILE_HEADER_MAGIC])
    ELSE Try(wrap_error(cursor_read(b, 4, 4)), LAMBDA version :
           header_fields(b, magic, version)))

(***************************************************************************)
(* readers/default.rs: the parse session.                                  *)
(***************************************************************************)
InvalidOffset(name, received, expected) ==
  ErrWith("InvalidOffset", "",
          [name |-> name, received |-> received, expected |-> expected])

\* from_bytes without its check of the version.
from_bytes_any_version(b, struct_offset, name_offset, data_offset, format_version) ==
  IF struct_offset >= Len(b) THEN InvalidOffset("struct_offset", struct_offset, Len(b))
  ELSE IF name_offset >= Len(b) THEN InvalidOffset("name_offset", name_offset, Len(b))
  ELSE IF data_offset >= Len(b) THEN InvalidOffset("data_offset", data_offset, Len(b))
  ELSE Ok([open           |-> TRUE,
           format_version |-> format_version,
           struct_offset  |-> struct_offset,
           name_offset    |-> name_offset,
           data_offset    |-> data_offset])

\* from_bytes letting an offset be the length of the image.
from_bytes_offsets_to_end(b, struct_offset, name_offset, data_offset, format_version) ==
  IF struct_offset > Len(b) THEN InvalidOffset("struct_offset", struct_offset, Len(b))
  ELSE IF name_offset > Len(b) THEN InvalidOffset("name_offset", name_offset, Len(b))
  ELSE IF data_offset > Len(b) THEN InvalidOffset("data_offset", data_offset, Len(b))
  ELSE IF WordLt(W(3), format_version)
    THEN ErrWith("UnsupportedVersion", "",
                 [received |-> format_version, expected |-> W(SUPPORTED_FORMAT_VERSION)])
  ELSE Ok([open           |-> TRUE,
           format_version |-> format_version,
           struct_offset  |-> struct_offset,
           name_offset    |-> name_offset,
           data_offset    |-> data_offset])

from_bytes(b, struct_offset, name_offset, data_offset, format_version) ==
  IF struct_offset >= Len(b) THEN InvalidOffset("struct_offset", struct_offset, Len(b))
  ELSE IF name_offset >= Len(b) THEN InvalidOffset("name_offset", name_offset, Len(b))
  ELSE IF data_offset >= Len(b) THEN InvalidOffset("data_offset", data_offset, Len(b))
  ELSE IF WordLt(W(3), format_version)
    THEN ErrWith("UnsupportedVersion", "",
                 [received |-> format_version, expected |-> W(SUPPORTED_FORMAT_VERSION)])
  ELSE Ok([open           |-> TRUE,
           format_version |-> format_version,
           struct_offset  |-> struct_offset,
           name_offset    |-> name_offset,
           data_offset    |-> data_offset])

from_rcc(b) ==
  Try(RCCFileHeaderReader_new(b), LAMBDA hd :
    from_bytes(b, hd.struct_offset, hd.name_offset, hd.data_offset, hd.format_version))

\* The record's base address; the product is a u32.
find_ptr(bd, rd, index) ==
  Try(Mul32(bd, index, 14 + (IF ~WordLt(rd.format_version, W(2)) THEN 8 ELSE 0)),
      LAMBDA offset : Ok(UAdd(rd.struct_offset, AsUsize(offset))))

(***************************************************************************)
(* types/: records.  A resource handle is its kind, the base address of    *)
(* its record and the absolute path stamped on it.                         *)
(***************************************************************************)
ZlibCompression == 1

Directory == 2

ZstdCompression == 4

Handle(kind, ptr) == [kind |-> kind, ptr |-> ptr, absolute_path |-> <<>>]

set_absolute_path(res, path) == [res EXCEPT !.absolute_path = path]

\* Every record taken for a directory, its flags unread.
Resource_derive_as_directory(bd, rd, b, index) ==
  Try(find_ptr(bd, rd, index), LAMBDA ptr : Ok(Handle("Directory", ptr)))

\* Resource::derive: the kind is bit 0x02 of the flags at record base + 4.
Resource_derive(bd, rd, b, index) ==
  Try(find_ptr(bd, rd, index), LAMBDA ptr :
  Try(wrap_error(read_from_offset(b, UAdd(ptr, 4), 2)), LAMBDA flags :
    IF BitAnd(flags, Directory) > 0 THEN Ok(Handle("Directory", ptr))
    ELSE Ok(Handle("File", ptr))))

internal_get_name_offset(b, ptr) == wrap_error(read_from_offset(b, ptr, 4))

internal_get_flags(b, ptr) == wrap_error(read_from_offset(b, UAdd(ptr, 4), 2))

internal_get_hash(b, ptr, name_offset) ==
  Try(internal_get_name_offset(b, ptr), LAMBDA offset :
    wrap_error(read_from_offset(b, UAdd(UAdd(name_offset, AsUsize(offset)), 2), 4)))

\* String::from_utf16: every surrogate must be half of a well-formed pair.
IsHighSurrogate(u) == u >= 55296 /\ u <= 56319

IsLowSurrogate(u) == u >= 56320 /\ u <= 57343

RECURSIVE ValidUtf16(_, _)
ValidUtf16(units, i) ==
  IF i > Len(units) THEN TRUE
  ELSE IF IsHighSurrogate(units[i])
    THEN i < Len(units) /\ IsLowSurrogate(units[i + 1]) /\ ValidUtf16(units, i + 2)
  ELSE IF IsLowSurrogate(units[i]) THEN FALSE
  ELSE ValidUtf16(units, i + 1)

\* internal_get_name once the cursor stands at `pos`, behind the length
\* and the hash of the name entry.
read_name_units(b, pos, length) ==
  Try(wrap_error(read_exact(b, pos, 2 * length)), LAMBDA buf :
    IF ValidUtf16(BigEndian16Units(buf, 0, length), 1)
    THEN Ok(BigEndian16Units(buf, 0, length))
    ELSE Err("InvalidData", ""))

internal_get_name(b, ptr, name_offset) ==
  Try(internal_get_name_offset(b, ptr), LAMBDA rno :
  Let(UAdd(name_offset, AsUsize(rno)), LAMBDA offset :
  Try(wrap_error(cursor_read(b, offset, 2)), LAMBDA length :
    read_name_units(b, UAdd(UAdd(offset, 2), 4), length))))

Resource_name(rd, b, res) == internal_get_name(b, res.ptr, rd.name_offset)

Resource_hash(rd, b, res) == internal_get_hash(b, res.ptr, rd.name_offset)

child_count(b, res) == wrap_error(read_from_offset(b, UAdd(res.ptr, 4 + 2), 4))

\* The child offset read where the child count is.
child_offset_at_count(b, res) == wrap_error(read_from_offset(b, UAdd(res.ptr, 4 + 2), 4))

child_offset(b, res) == wrap_error(read_from_offset(b, UAdd(res.ptr, 4 * 2 + 2), 4))

file_data_offset(b, res) == wrap_error(read_from_offset(b, UAdd(res.ptr, 4 + 2 * 3), 4))

\* Territory::from_repr and Language::from_repr: the enumerations map a
\* code to a symbol, here the code itself; 0xFFFF is in neither.
UnknownCodes == {65535}

from_repr(raw) == IF raw \in UnknownCodes THEN None ELSE Some(raw)

territory(b, res) ==
  Try(wrap_error(read_from_offset(b, UAdd(res.ptr, 4 + 2), 2)), LAMBDA raw :
    IF from_repr(raw).some THEN Ok(from_repr(raw).res) ELSE Err("InvalidData", ""))

language(b, res) ==
  Try(wrap_error(read_from_offset(b, UAdd(res.ptr, 4 + 2 * 2), 2)), LAMBDA raw :
    IF from_repr(raw).some THEN Ok(from_repr(raw).res) ELSE Err("InvalidData", ""))

\* NaiveDateTime::from_timestamp_millis(raw as i64): the milliseconds, or
\* nothing beyond the dates chrono can hold (about 262,000 years either
\* side of the epoch, 29 * 2^48 ms and more).
from_timestamp_millis(raw) ==
  IF raw.hi.hi < 29 \/ raw.hi.hi > 65506 THEN Some(raw) ELSE None

last_modified(rd, b, res) ==
  IF WordLt(rd.format_version, W(2)) THEN Ok(None)
  ELSE Try(wrap_error(read_from_offset(b, UAdd(res.ptr, 4 * 2 + 2 * 3), 8)), LAMBDA raw :
         Ok(from_timestamp_millis(raw)))

\* ResourceFile::raw_data: the 4-byte size, then that many bytes.
raw_data(rd, b, res) ==
  Try(file_data_offset(b, res), LAMBDA rel :
  Let(UAdd(rd.data_offset, AsUsize(rel)), LAMBDA offset :
  Try(wrap_error(read_from_offset(b, offset, 4)), LAMBDA size :
    IF UAdd(UAdd(offset, 4), AsUsize(size)) > Len(b)
    THEN Err("OutOfBounds", "")
    ELSE Ok(SubSeq(b, offset + 4 + 1, offset + 4 + AsUsize(size))))))

\* From<u16> for CompressionAlgorithm.
CompressionAlgorithm_from(value) ==
  LET compression_flags == BitAnd(value, BitOr(ZlibCompression, ZstdCompression))
  IN  IF compression_flags = ZlibCompression THEN "Zlib"
      ELSE IF compression_flags = ZstdCompression THEN "Zstd"
      ELSE "None"

compression_algo(b, res) ==
  Try(internal_get_flags(b, res.ptr), LAMBDA flags :
    Ok(CompressionAlgorithm_from(flags)))

(***************************************************************************)
(* The codecs are black boxes.  A zlib stream is modelled as the byte      *)
(* ZlibHeader, a length n and n stored bytes, which inflate to themselves; *)
(* what follows the stream is ignored, as flate2 does.  A zstd frame is    *)
(* the byte ZstdMagic, the declared content size (NoContentSize when the   *)
(* frame header has none), a length n and n stored bytes; the decoder      *)
(* fails on a frame whose content is not of the declared size and on a     *)
(* destination smaller than the content.                                   *)
(***************************************************************************)
ZlibHeader == {120}

ZstdMagic == {40}

NoContentSize == {255}

\* ZlibDecoder::new(data).read_to_end(&mut buf)
read_to_end(stream) ==
  IF Len(stream) < 2 THEN IoErr("InvalidInput")
  ELSE IF stream[1] \notin ZlibHeader \/ Len(stream) < 2 + stream[2]
  THEN IoErr("InvalidInput")
  ELSE IoOk(SubSeq(stream, 3, 2 + stream[2]))

\* zstd_safe::get_frame_content_size
get_frame_content_size(frame) ==
  IF Len(frame) < 2 THEN IoErr("SrcSizeWrong")
  ELSE IF frame[1] \notin ZstdMagic THEN IoErr("PrefixUnknown")
  ELSE IF frame[2] \in NoContentSize THEN IoOk(None)
  ELSE IoOk(Some(frame[2]))

\* zstd_safe::decompress into a buffer of the given capacity
decompress(capacity, frame) ==
  IF Len(frame) < 3 THEN IoErr("SrcSizeWrong")
  ELSE IF frame[1] \notin ZstdMagic THEN IoErr("PrefixUnknown")
  ELSE IF Len(frame) # 3 + frame[3] THEN IoErr("SrcSizeWrong")
  ELSE IF frame[2] \notin NoContentSize /\ frame[2] # frame[3]
  THEN IoErr("CorruptionDetected")
  ELSE IF frame[3] > capacity THEN IoErr("DstSizeTooSmall")
  ELSE IoOk(SubSeq(frame, 4, 3 + frame[3]))

\* .map_err(|err| Error::IO(..)) on the result of a codec.
map_err_IO(r) == IF r.ok THEN Ok(r.val) ELSE Err("IO", r.kind)

\* ResourceFile::size, a u64.
file_size(rd, b, res) ==
  Try(raw_data(rd, b, res), LAMBDA raw :
    IF raw = <<>> THEN Ok(0)
    ELSE Try(compression_algo(b, res), LAMBDA algo :
      IF algo = "None" THEN Ok(Len(raw))
      ELSE IF algo = "Zstd"
      THEN IF ~get_frame_content_size(raw).ok THEN Err("InvalidData", "")
           ELSE IF ~get_frame_content_size(raw).val.some THEN Err("InvalidData", "")
           ELSE Ok(get_frame_content_size(raw).val.res)
      ELSE Try(wrap_error(read_from_offset(raw, 0, 4)), LAMBDA prefix :
             Ok(prefix.hi * U16 + prefix.lo))))

\* ResourceFile::data: the payload as stored, or what the codec makes of it
\* in a buffer of capacity size().
file_data(rd, b, res) ==
  Try(raw_data(rd, b, res), LAMBDA raw :
  Try(compression_algo(b, res), LAMBDA algo :
    IF raw = <<>> \/ algo = "None" THEN Ok(raw)
    ELSE Try(file_size(rd, b, res), LAMBDA capacity :
      IF algo = "Zstd" THEN map_err_IO(decompress(capacity, raw))
      ELSE IF Len(raw) < 4 THEN Err("OutOfBounds", "")
      ELSE map_err_IO(read_to_end(SubSeq(raw, 5, Len(raw)))))))

\* The loop leaving out every child that fails to decode.
RECURSIVE children_loop_lenient(_, _, _, _, _, _, _)
children_loop_lenient(bd, rd, b, dir, count, first, child) ==
  IF ~WordLt(child, count) THEN Ok(<<>>)
  ELSE Try(children_loop_lenient(bd, rd, b, dir, count, first,
                                 Add32("release", child, W(1)).val), LAMBDA rest :
       Let(Try(Add32(bd, first, child), LAMBDA index :
           Try(Resource_derive(bd, rd, b, index), LAMBDA node :
           Try(Resource_name(rd, b, node), LAMBDA name :
             Ok(<<set_absolute_path(node, PathJoin(dir.absolute_path, name))>>)))),
           LAMBDA one : IF IsOk(one) THEN Ok(one.val \o rest) ELSE Ok(rest)))

\* ResourceDirectory::children, from the child-th child on.
RECURSIVE children_loop(_, _, _, _, _, _, _)
children_loop(bd, rd, b, dir, count, first, child) ==
  IF ~WordLt(child, count) THEN Ok(<<>>)
  ELSE Try(Add32(bd, first, child), LAMBDA index :
       Try(Resource_derive(bd, rd, b, index), LAMBDA node :
       Try(Resource_name(rd, b, node), LAMBDA name :
       Try(children_loop(bd, rd, b, dir, count, first,
                         Add32("release", child, W(1)).val), LAMBDA rest :
         Ok(<<set_absolute_path(node, PathJoin(dir.absolute_path, name))>> \o rest)))))

children(bd, rd, b, dir) ==
  Try(child_count(b, dir), LAMBDA count :
  Try(child_offset(b, dir), LAMBDA first :
    children_loop(bd, rd, b, dir, count, first, Zero)))

(***************************************************************************)
(* readers/default.rs: the resolver.  A search yields its result r and    *)
(* the probes it made (record index, left, right), in order; a lookup its  *)
(* result r and, search by search, the probes of its searches.             *)
(***************************************************************************)
Outcome(r, probes) == [r |-> r, probes |-> probes]

\* `e?` within a search: the error is the result, with the probes so far.
TryProbing(r, probes, Rest(_)) == IF IsOk(r) THEN Rest(r.val) ELSE Outcome(r, probes)

Probe(index, left, right) == [index |-> index, left |-> left, right |-> right]

\* The while loop of binary_search.
RECURSIVE binary_search_loop(_, _, _, _, _, _, _, _)
binary_search_loop(bd, rd, b, key, first, left, right, probes) ==
  IF ~WordLt(left, right) THEN Outcome(Ok(None), probes)
  ELSE
    TryProbing(Add32(bd, left, right), probes, LAMBDA sum :
    Let(WordHalf(sum), LAMBDA mid :
    TryProbing(Add32(bd, first, mid), probes, LAMBDA index :
    Let(Append(probes, Probe(index, left, right)), LAMBDA seen :
    TryProbing(Resource_derive(bd, rd, b, index), seen, LAMBDA node :
    TryProbing(Resource_hash(rd, b, node), seen, LAMBDA hash :
    TryProbing(qt_hash(bd, key, Zero), seen, LAMBDA want :
      IF hash = want THEN Outcome(Ok(Some(node)), seen)
      ELSE IF WordLt(hash, want)
        THEN binary_search_loop(bd, rd, b, key, first,
                                Add32("release", mid, W(1)).val, right, seen)
      ELSE binary_search_loop(bd, rd, b, key, first, left, mid, seen))))))))

binary_search(bd, rd, b, key, count, first) ==
  binary_search_loop(bd, rd, b, key, first, Zero, count, <<>>)

\* The loop handing out a file it matched whatever segments remain.
RECURSIVE find_loop_returning_file(_, _, _, _, _, _, _, _, _)
find_loop_returning_file(bd, rd, b, segments, i, count, first, resource_path, probes) ==
  IF i > Len(segments) THEN Outcome(Ok(None), probes)
  ELSE
    Let(binary_search(bd, rd, b, segments[i], count, first), LAMBDA search :
    Let(Append(probes, search.probes), LAMBDA seen :
    TryProbing(search.r, seen, LAMBDA hit :
      IF ~hit.some THEN Outcome(Ok(None), seen)
      ELSE
        TryProbing(Resource_name(rd, b, hit.res), seen, LAMBDA name :
        Let(PathJoin(resource_path, name), LAMBDA path :
          IF hit.res.kind = "Directory" /\ i < Len(segments) THEN
            TryProbing(child_count(b, hit.res), seen, LAMBDA child_cnt :
            TryProbing(child_offset(b, hit.res), seen, LAMBDA child_off :
              find_loop_returning_file(bd, rd, b, segments, i + 1, child_cnt, child_off,
                                       path, seen)))
          ELSE Outcome(Ok(Some(set_absolute_path(hit.res, path))), seen))))))

\* The while-let loop of find, at the i-th segment, within the child range
\* (count, first) and below resource_path.
RECURSIVE find_loop(_, _, _, _, _, _, _, _, _)
find_loop(bd, rd, b, segments, i, count, first, resource_path, probes) ==
  IF i > Len(segments) THEN Outcome(Ok(None), probes)
  ELSE
    Let(binary_search(bd, rd, b, segments[i], count, first), LAMBDA search :
    Let(Append(probes, search.probes), LAMBDA seen :
    TryProbing(search.r, seen, LAMBDA hit :
      IF ~hit.some THEN Outcome(Ok(None), seen)
      ELSE
        TryProbing(Resource_name(rd, b, hit.res), seen, LAMBDA name :
        Let(PathJoin(resource_path, name), LAMBDA path :
          IF hit.res.kind = "Directory" /\ i < Len(segments) THEN
            TryProbing(child_count(b, hit.res), seen, LAMBDA child_cnt :
            TryProbing(child_offset(b, hit.res), seen, LAMBDA child_off :
              find_loop(bd, rd, b, segments, i + 1, child_cnt, child_off, path, seen)))
          ELSE IF i < Len(segments) THEN Outcome(Ok(None), seen)
          ELSE Outcome(Ok(Some(set_absolute_path(hit.res, path))), seen))))))

find_traced(bd, rd, b, path) ==
  Let(absolutize_from_root(str_to_unix_path(path).path), LAMBDA abs :
  TryProbing(Resource_derive(bd, rd, b, Zero), <<>>, LAMBDA res :
  Let(set_absolute_path(res, <<Slash>>), LAMBDA root :
    IF root.kind = "File" THEN Outcome(Err("InvalidData", ""), <<>>)
    ELSE IF PathEq(abs, <<Slash>>) THEN Outcome(Ok(Some(root)), <<>>)
    ELSE
      TryProbing(child_count(b, root), <<>>, LAMBDA count :
      TryProbing(child_offset(b, root), <<>>, LAMBDA first :
        find_loop(bd, rd, b, NormalSegments(Components(abs), 1), 1,
                  count, first, <<Slash>>, <<>>))))))

\* A resolver with a cursor: after a lookup that gave a directory, the next
\* path is looked up below that directory.
find_resuming(bd, rd, b, path) ==
  IF op \in {"find", "find_child"} /\ IsOk(ret) /\ ret.val.some
       /\ ret.val.res.kind = "Directory"
  THEN Try(child_count(b, ret.val.res), LAMBDA count :
       Try(child_offset(b, ret.val.res), LAMBDA first :
         find_loop(bd, rd, b,
                   NormalSegments(Components(normalise(path)), 1), 1,
                   count, first, ret.val.res.absolute_path, <<>>).r))
  ELSE find_traced(bd, rd, b, path).r

find(bd, rd, b, path) == find_traced(bd, rd, b, path).r

(***************************************************************************)
(* Byte images, laid out as the fixtures of the test suites are: header,   *)
(* payload table, name table, record table.  A node is one record:         *)
(* [name, hash, flags, a, b, payload], where (a, b) is (child count, first *)
(* child) of a directory and b is unused for a file.                       *)
(***************************************************************************)
U16BE(n) == <<(n \div 256) % 256, n % 256>>

U32BE(n) == U16BE(n \div U16) \o U16BE(n % U16)

WordBE(w) == U16BE(w.hi) \o U16BE(w.lo)

RECURSIVE Units16BE(_, _)
Units16BE(units, i) ==
  IF i > Len(units) THEN <<>> ELSE U16BE(units[i]) \o Units16BE(units, i + 1)

IsDirNode(n) == BitAnd(n.flags, Directory) > 0

NameEntry(n) == U16BE(Len(n.name)) \o WordBE(n.hash) \o Units16BE(n.name, 1)

DataEntry(n) == IF IsDirNode(n) THEN <<>> ELSE U32BE(Len(n.payload)) \o n.payload

RECURSIVE NameTable(_, _)
NameTable(nodes, k) ==
  IF k = 0 THEN <<>> ELSE NameTable(nodes, k - 1) \o NameEntry(nodes[k])

RECURSIVE DataTable(_, _)
DataTable(nodes, k) ==
  IF k = 0 THEN <<>> ELSE DataTable(nodes, k - 1) \o DataEntry(nodes[k])

\* The record of nodes[k]: its name and payload entries start where those
\* of the nodes before it end.
RecordBytes(nodes, k, version) ==
  LET n == nodes[k]
  IN  U32BE(Len(NameTable(nodes, k - 1)))
      \o U16BE(n.flags)
      \o (IF IsDirNode(n) THEN U32BE(n.a) \o U32BE(n.b)
          ELSE U16BE(0) \o U16BE(0) \o U32BE(Len(DataTable(nodes, k - 1))))
      \o (IF version >= 2 THEN U32BE(0) \o U32BE(0) ELSE <<>>)

RECURSIVE RecordTable(_, _, _)
RecordTable(nodes, k, version) ==
  IF k = 0 THEN <<>>
  ELSE RecordTable(nodes, k - 1, version) \o RecordBytes(nodes, k, version)

HeaderLen(version) == IF version >= 3 THEN 24 ELSE 20

Layout(nodes, version) ==
  LET data  == DataTable(nodes, Len(nodes))
      names == NameTable(nodes, Len(nodes))
  IN  [data_offset   |-> HeaderLen(version),
       name_offset   |-> HeaderLen(version) + Len(data),
       struct_offset |-> HeaderLen(version) + Len(data) + Len(names)]

HeaderBytes(magic, version, struct_offset, data_offset, name_offset) ==
  magic \o U32BE(version) \o U32BE(struct_offset) \o U32BE(data_offset)
        \o U32BE(name_offset) \o (IF version >= 3 THEN U32BE(0) ELSE <<>>)

Image(nodes, version) ==
  LET at == Layout(nodes, version)
  IN  HeaderBytes(RCC_FILE_HEADER_MAGIC, version, at.struct_offset,
                  at.data_offset, at.name_offset)
      \o DataTable(nodes, Len(nodes))
      \o NameTable(nodes, Len(nodes))
      \o RecordTable(nodes, Len(nodes), version)

(***************************************************************************)
(* The images the sessions are opened on: a root directory with up to      *)
(* MaxFanout children, files or directories, every directory among them    *)
(* holding the same list of files.  Siblings are in ascending order of     *)
(* hash and carry distinct names; "aq" and "ba" hash alike.                *)
(***************************************************************************)
MaxFanout == 2

MaxSegments == 2

NameAq == <<97, 113>>

NameBa == <<98, 97>>

NameC == <<99>>

NameColonC == <<Colon, 99>>

Names == {NameAq, NameBa, NameC}

Versions == {1, 3}

HashOf(name) == qt_hash("release", name, Zero).val

Ascending(q) ==
  /\ \A i, j \in DOMAIN q : i < j => q[i].name # q[j].name
  /\ \A i \in DOMAIN q : i < Len(q) => ~WordLt(HashOf(q[i + 1].name), HashOf(q[i].name))

Entries(S, kinds) == [name : S, dir : kinds]

SortedLists(S, kinds, n) ==
  UNION {{q \in [1..k -> Entries(S, kinds)] : Ascending(q)} : k \in 0..n}

TopLists == SortedLists(Names, BOOLEAN, MaxFanout)

\* The names of the files held by a directory below the root.
SubNames == {NameBa, NameC}

SubLists == SortedLists(SubNames, {FALSE}, MaxFanout)

DirsBefore(top, k) == Cardinality({j \in 1..(k - 1) : top[j].dir})

DirNode(name, count, first) ==
  [name |-> name, hash |-> HashOf(name), flags |-> Directory,
   a |-> count, b |-> first, payload |-> <<>>]

FileNode(name, payload) ==
  [name |-> name, hash |-> HashOf(name), flags |-> 0,
   a |-> 0, b |-> 0, payload |-> payload]

RECURSIVE SubNodes(_, _, _)
SubNodes(top, sub, k) ==
  IF k > Len(top) THEN <<>>
  ELSE (IF top[k].dir THEN [j \in 1..Len(sub) |-> FileNode(sub[j].name, <<k, j>>)]
        ELSE <<>>)
       \o SubNodes(top, sub, k + 1)

\* Record 0 is the root; its children follow, then theirs.
Tree(top, sub) ==
  <<DirNode(<<>>, Len(top), 1)>>
  \o [k \in 1..Len(top) |->
        IF top[k].dir
        THEN DirNode(top[k].name, Len(sub), 1 + Len(top) + DirsBefore(top, k) * Len(sub))
        ELSE FileNode(top[k].name, <<k>>)]
  \o SubNodes(top, sub, 1)

\* "/" followed by the segments, "/"-separated.
PosixPath(segments) == <<Slash>> \o JoinTokens(segments, 1)

SegmentLists(S, n) == UNION {[1..k -> S] : k \in 0..n}

Last(q) == q[Len(q)]

(***************************************************************************)
(* Lookups on a session (specification Spec).  The client opens a session  *)
(* on an image, then looks paths up, one call at a time: any path made of  *)
(* the names in use, or the path of a child it has listed with children(). *)
(* Between two calls the session is idle: a call leaves nothing behind but *)
(* its result, which the client drops before the next call.                *)
(***************************************************************************)
Idle == reader.open /\ op = "idle"

Init ==
  /\ bytes = <<>>
  /\ reader = NoReader
  /\ build \in Builds
  /\ op = "init"
  /\ arg = Nothing
  /\ ret = Ok(Nothing)

\* The session from_bytes opens on an image laid out by Layout.
OpenImage(nodes, version) ==
  Let(Layout(nodes, version), LAMBDA at :
    from_bytes(Image(nodes, version), at.struct_offset, at.name_offset,
               at.data_offset, W(version)))

\* The session is idle once it is open; the error is the result if not.
Opening(opened) ==
  /\ reader' = IF IsOk(opened) THEN opened.val ELSE NoReader
  /\ op' = IF IsOk(opened) THEN "idle" ELSE "from_bytes"
  /\ ret' = IF IsOk(opened) THEN Ok(Nothing) ELSE opened

\* No session yet, and the input of a function given in arg.
Given(inputs) ==
  /\ bytes = <<>>
  /\ reader = NoReader
  /\ build \in Builds
  /\ op = "given"
  /\ arg \in inputs
  /\ ret = Ok(Nothing)

Open ==
  /\ ~reader.open
  /\ op = "init"
  /\ \E top \in TopLists, sub \in SubLists, version \in Versions :
       /\ bytes' = Image(Tree(top, sub), version)
       /\ Opening(OpenImage(Tree(top, sub), version))
  /\ arg' = Nothing
  /\ UNCHANGED build

\* The client drops the result of the last call.
Drop ==
  /\ reader.open
  /\ op # "idle"
  /\ op' = "idle"
  /\ arg' = Nothing
  /\ ret' = Ok(Nothing)
  /\ UNCHANGED <<bytes, reader, build>>

Find ==
  /\ Idle
  /\ \E segments \in SegmentLists(Names, MaxSegments) :
       /\ op' = "find"
       /\ arg' = [path |-> PosixPath(segments)]
       /\ ret' = find(build, reader, bytes, PosixPath(segments))
  /\ UNCHANGED <<bytes, reader, build>>

\* The resources children() lists for `dir`, none if it fails.
ChildrenOf(bd, rd, b, dir) ==
  Let(children(bd, rd, b, dir), LAMBDA kids :
    IF IsOk(kids) THEN {kids.val[i] : i \in DOMAIN kids.val} ELSE {})

\* The directories children() reaches from `dir` within `depth` levels.
RECURSIVE DirectoriesBelow(_, _, _, _, _)
DirectoriesBelow(bd, rd, b, dir, depth) ==
  {dir} \cup
  (IF depth = 0 THEN {}
   ELSE UNION {DirectoriesBelow(bd, rd, b, child, depth - 1) :
                 child \in {c \in ChildrenOf(bd, rd, b, dir) : c.kind = "Directory"}})

ReachableDirectories(bd, rd, b) ==
  Let(find(bd, rd, b, <<Slash>>), LAMBDA root :
    IF IsOk(root) /\ root.val.some /\ root.val.res.kind = "Directory"
    THEN DirectoriesBelow(bd, rd, b, root.val.res, MaxSegments)
    ELSE {})

\* find(absolute_path(D) + "/" + S) for a child named S of a directory D.
FindChild ==
  /\ Idle
  /\ \E dir \in ReachableDirectories(build, reader, bytes) :
       \E child \in ChildrenOf(build, reader, bytes, dir) :
         Let(Resource_name(reader, bytes, child), LAMBDA name :
           /\ IsOk(name)
           /\ op' = "find_child"
           /\ arg' = [path |-> dir.absolute_path \o <<Slash>> \o name.val,
                      dir  |-> dir,
                      name |-> name.val]
           /\ ret' = find(build, reader, bytes,
                          dir.absolute_path \o <<Slash>> \o name.val))
  /\ UNCHANGED <<bytes, reader, build>>

\* The records of an image whose record 0 is a file.
FileAtRoot(nodes) == [nodes EXCEPT ![1] = FileNode(<<>>, <<>>)]

OpenFileAtRoot ==
  /\ ~reader.open
  /\ op = "init"
  /\ \E top \in TopLists, version \in Versions :
       /\ bytes' = Image(FileAtRoot(Tree(top, <<>>)), version)
       /\ Opening(OpenImage(FileAtRoot(Tree(top, <<>>)), version))
  /\ arg' = Nothing
  /\ UNCHANGED build

\* The root directory of the session, if find("/") gives one.
RootOf(bd, rd, b) ==
  {r.val.res : r \in {x \in {find(bd, rd, b, <<Slash>>)} : IsOk(x) /\ x.val.some}}

\* The calls made between two lookups of a path: find("/"), children() of
\* what it gave, and the lookup of another path.
Between(bd, rd, b) ==
  [root     |-> find(bd, rd, b, <<Slash>>),
   children |-> {children(bd, rd, b, root) : root \in RootOf(bd, rd, b)},
   other    |-> find(bd, rd, b, PosixPath(<<NameBa, NameC>>))]

\* The path just looked up is looked up again, other calls made first; the
\* first result is kept beside the second.
FindAgain ==
  /\ reader.open
  /\ op \in {"find", "find_child"}
  /\ op' = "find_again"
  /\ arg' = [path    |-> arg.path,
             first   |-> ret,
             between |-> Between(build, reader, bytes)]
  /\ ret' = find(build, reader, bytes, arg.path)
  /\ UNCHANGED <<bytes, reader, build>>

Next == Open \/ OpenFileAtRoot \/ Drop \/ Find \/ FindChild \/ FindAgain

Spec == Init /\ [][Next]_vars

\* C1: on a well-formed image, for every reachable directory D and every
\* name S of a child of D, find(absolute_path(D) + "/" + S) returns a
\* resource, never "not found", whose stored hash equals qt_hash(S, 0).
C1_ChildIsFound ==
  op = "find_child" =>
    /\ IsOk(ret)
    /\ ret.val.some
    /\ Resource_hash(reader, bytes, ret.val.res) = Ok(HashOf(arg.name))

\* C2: whenever find(P) returns a file, the decoded name of that file is
\* the last normal segment of the normalised P.
C2_FileNameIsLastSegment ==
  (op \in {"find", "find_child"} /\ IsOk(ret) /\ ret.val.some
     /\ ret.val.res.kind = "File") =>
    Resource_name(reader, bytes, ret.val.res)
      = Ok(Last(NormalSegments(Components(normalise(arg.path)), 1)))

\* Record 0 of the image is a file: bit 0x02 of its flags is clear.
FileAtRecordZero ==
  /\ reader.open
  /\ reader.struct_offset + 6 <= Len(bytes)
  /\ BitAnd(bytes[reader.struct_offset + 6], 2) = 0

\* C13: if record 0 of the image is a file, find returns InvalidData for
\* every path, "/" and paths that name nothing included; never a resource
\* and never "not found".
C13_FileAtRootIsInvalidData ==
  (op \in {"find", "find_child", "find_again"} /\ FileAtRecordZero) =>
    ret = Err("InvalidData", "")

\* "/" and a path of two names, on an image whose record 0 is a file.
C13_Witness ==
  /\ op = "find"
  /\ FileAtRecordZero
  /\ arg.path \in {<<Slash>>, PosixPath(<<NameBa, NameC>>)}
  /\ ret = Err("InvalidData", "")

\* From the i-th segment on, within the child range (count, first): a
\* segment that is not the last matches a file record.
RECURSIVE FileBeforeEnd(_, _, _, _, _, _, _)
FileBeforeEnd(bd, rd, b, segments, i, count, first) ==
  /\ i < Len(segments)
  /\ Let(binary_search(bd, rd, b, segments[i], count, first).r, LAMBDA hit :
       /\ IsOk(hit)
       /\ hit.val.some
       /\ IF hit.val.res.kind = "File" THEN TRUE
          ELSE /\ IsOk(child_count(b, hit.val.res))
               /\ IsOk(child_offset(b, hit.val.res))
               /\ FileBeforeEnd(bd, rd, b, segments, i + 1,
                                child_count(b, hit.val.res).val,
                                child_offset(b, hit.val.res).val))

\* The root holds a file of this name that shares its hash with no sibling.
FileAlone(bd, rd, b, name) ==
  \E root \in RootOf(bd, rd, b) :
    \E c \in ChildrenOf(bd, rd, b, root) :
      /\ c.kind = "File"
      /\ Resource_name(rd, b, c) = Ok(name)
      /\ \A o \in ChildrenOf(bd, rd, b, root) :
           Resource_hash(rd, b, o) = Resource_hash(rd, b, c) => o = c

MaxKeyLen == 4

HashUnits == {97, 65535}

KeyCerts == <<99, 101, 114, 116, 115>>

KeyClient == <<67, 108, 105, 101, 110, 116>>

KeyClientP12 == <<99, 108, 105, 101, 110, 116, 46, 112, 49, 50>>

KeyOverflow ==
  <<65520, 113, 97, 65535, 65535, 65535, 65535, 65535, 65535, 97, 65535>>

HashKeys ==
  UNION {[1..n -> HashUnits] : n \in 0..MaxKeyLen}
    \cup {KeyCerts, KeyClient, KeyClientP12, KeyOverflow}

\* 0, 0x01000000, 0x0fffffff, 0x10000000 and 0xffffffff.
Chains == {Zero, Word(256, 0), Word(4095, 65535), Word(4096, 0), Word(65535, 65535)}

InitHash == Given([key : HashKeys, chained : Chains])

QtHash ==
  /\ op = "given"
  /\ op' = "qt_hash"
  /\ ret' = qt_hash(build, arg.key, arg.chained)
  /\ UNCHANGED <<bytes, reader, build, arg>>

NextHash == QtHash

SpecHash == InitHash /\ [][NextHash]_vars

\* The reference recurrence, on 32-bit words: result = (result << 4) + c,
\* result ^= (result & 0xF0000000) >> 23, result &= 0x0FFFFFFF.
ReferenceSum(x, c) ==
  Word((x.hi + (x.lo + c) \div U16) % U16, (x.lo + c) % U16)

ReferenceFold(sum) ==
  WordAnd(WordXor(sum, WordShr(WordAnd(sum, Word(61440, 0)), 23)), Word(4095, 65535))

ReferenceStep(result, c) == ReferenceFold(ReferenceSum(WordShl(result, 4), c))

\* The recurrence from the i-th code unit of key on; it has a value for
\* every key.
RECURSIVE ReferenceHash(_, _, _)
ReferenceHash(key, i, result) ==
  IF i > Len(key) THEN Ok(result)
  ELSE Try(Ok(ReferenceStep(result, key[i])), LAMBDA next :
         ReferenceHash(key, i + 1, next))

\* C6: qt_hash(key, chained) equals the reference recurrence applied to the
\* code units of key from chained, for every key; qt_hash("certs", 0) is
\* 6932915, qt_hash("Client", 0) is 77790292 and qt_hash("client.p12", 0)
\* is 207230626.
C6_EqualsReference ==
  op = "qt_hash" =>
    /\ ret = ReferenceHash(arg.key, 1, arg.chained)
    /\ ((arg.key = KeyCerts /\ arg.chained = Zero) => ret = Ok(Word(105, 51635)))
    /\ ((arg.key = KeyClient /\ arg.chained = Zero) => ret = Ok(Word(1186, 64596)))
    /\ ((arg.key = KeyClientP12 /\ arg.chained = Zero) => ret = Ok(Word(3162, 5794)))

\* C7 as stated: for every key, the empty key included, and every chained
\* value, the result of qt_hash is below 2^28.
C7_ResultBelow2Pow28 ==
  (op = "qt_hash" /\ IsOk(ret)) => WordLt(ret.val, Word(4096, 0))

\* C7, amended: for every non-empty key and every chained value, a result
\* of qt_hash is below 2^28; for the empty key the result is chained.
C7_NonEmptyKeyBelow2Pow28 ==
  (op = "qt_hash" /\ IsOk(ret)) =>
    IF arg.key = <<>> THEN ret.val = arg.chained
    ELSE WordLt(ret.val, Word(4096, 0))

\* A one-unit key hashed from 0x01000000: the sum has a top nibble.
C7_Witness ==
  /\ op = "qt_hash"
  /\ arg.key = <<97>>
  /\ arg.chained = Word(256, 0)
  /\ ret = Ok(Word(0, 65))

\* C24: hashing from chained = 0, the sum (result << 4) + c never passes
\* 2^32 - 1 at any step, for any key: the hash has a value under overflow
\* checks, and what a build without them returns is not a wrapped value.
C24_SumNeverOverflows ==
  (op = "qt_hash" /\ arg.chained = Zero) => IsOk(qt_hash("debug", arg.key, Zero))

(***************************************************************************)
(* Path folding on its own (specification SpecPath): str_to_unix_path and  *)
(* the normalisation of find on every string of up to MaxPathLen           *)
(* characters among '/', '\\', ':', '.' and 'b', and the normalisation      *)
(* again on what it gave.                                                  *)
(***************************************************************************)
MaxPathLen == 3

PathChars == {Slash, Backslash, Colon, Dot, 98}

Strings(chars, n) == UNION {[1..k -> chars] : k \in 0..n}

InitPath == Given([path : Strings(PathChars, MaxPathLen)])

ToUnixPath ==
  /\ op = "given"
  /\ op' = "str_to_unix_path"
  /\ ret' = Ok(str_to_unix_path(arg.path))
  /\ UNCHANGED <<bytes, reader, build, arg>>

Normalise ==
  /\ op = "given"
  /\ op' = "normalise"
  /\ ret' = Ok(normalise(arg.path))
  /\ UNCHANGED <<bytes, reader, build, arg>>

\* The normalisation applied to its own output.
Renormalise ==
  /\ op = "normalise"
  /\ op' = "renormalise"
  /\ arg' = [path |-> ret.val]
  /\ ret' = Ok(normalise(ret.val))
  /\ UNCHANGED <<bytes, reader, build>>

NextPath == ToUnixPath \/ Normalise \/ Renormalise

SpecPath == InitPath /\ [][NextPath]_vars

\* C3: normalisation is idempotent, normalise(normalise(p)) = normalise(p)
\* for every input string p.
C3_NormaliseIdempotent == op = "renormalise" => ret.val = arg.path

NoBackslash(s) == \A i \in DOMAIN s : s[i] # Backslash

\* C5 as stated: for every input without a backslash, str_to_unix_path
\* returns the input unchanged, borrowed.
C5_PosixLeftIntact ==
  (op = "str_to_unix_path" /\ NoBackslash(arg.path)) =>
    ret.val = [borrowed |-> TRUE, path |-> arg.path]

\* C5, amended: for every input without a backslash whose second character
\* is not ':', str_to_unix_path returns the input unchanged, borrowed.
C5_PosixWithoutDriveLeftIntact ==
  (op = "str_to_unix_path" /\ NoBackslash(arg.path)
     /\ ~(Len(arg.path) >= 2 /\ arg.path[2] = Colon)) =>
    ret.val = [borrowed |-> TRUE, path |-> arg.path]

\* "/b:" went through, its ':' kept.
C5_Witness ==
  /\ op = "str_to_unix_path"
  /\ arg.path = <<Slash, 98, Colon>>
  /\ ret.val.borrowed
  /\ ret.val.path = <<Slash, 98, Colon>>

(***************************************************************************)
(* The dialects of a path (specification SpecForms).  On images whose root *)
(* holds "c" and ":c", files or directories, the client looks up a POSIX   *)
(* absolute path of normal segments, of up to MaxPathLen characters behind *)
(* the root, in its four forms: as it is, without the leading '/', with    *)
(* '\\' for '/', and that with a drive in front.                            *)
(***************************************************************************)
FormChars == {Slash, Backslash, Colon, 99}

FormLists == SortedLists({NameC, NameColonC}, BOOLEAN, MaxFanout)

FormSub == <<[name |-> NameC, dir |-> FALSE]>>

\* The text behind the root of a POSIX path of normal segments: no segment
\* of it is empty.
SegmentsOnly(body) ==
  /\ body # <<>> => body[1] # Slash /\ body[Len(body)] # Slash
  /\ \A i \in DOMAIN body : i < Len(body) => ~(body[i] = Slash /\ body[i + 1] = Slash)

FormBodies == {body \in Strings(FormChars, MaxPathLen) : SegmentsOnly(body)}

Backslashed(s) == [i \in DOMAIN s |-> IF s[i] = Slash THEN Backslash ELSE s[i]]

DriveC == <<67, Colon>>

OpenForms ==
  /\ ~reader.open
  /\ op = "init"
  /\ \E top \in FormLists, version \in Versions :
       /\ bytes' = Image(Tree(top, FormSub), version)
       /\ Opening(OpenImage(Tree(top, FormSub), version))
  /\ arg' = Nothing
  /\ UNCHANGED build

FindForms ==
  /\ Idle
  /\ \E body \in FormBodies :
       /\ op' = "find_forms"
       /\ arg' = [path |-> <<Slash>> \o body]
       /\ ret' = Ok([posix     |-> find(build, reader, bytes, <<Slash>> \o body),
                     relative  |-> find(build, reader, bytes, body),
                     backslash |-> find(build, reader, bytes,
                                        Backslashed(<<Slash>> \o body)),
                     drive     |-> find(build, reader, bytes,
                                        DriveC \o Backslashed(<<Slash>> \o body))])
  /\ UNCHANGED <<bytes, reader, build>>

NextForms == OpenForms \/ FindForms \/ Drop

SpecForms == Init /\ [][NextForms]_vars

SameInAllForms(r) ==
  r.relative = r.posix /\ r.backslash = r.posix /\ r.drive = r.posix

\* C4 as stated: for every POSIX absolute path P of normal segments, find
\* gives the same result for P, for P without its leading '/', for P with
\* '\\' for every '/', and for that form behind a drive letter and ':'.
C4_SameInAllForms == op = "find_forms" => SameInAllForms(ret.val)

\* C4, amended: the four forms give the same result for every such P
\* whose first segment has no ':' among its first two characters.
C4_SameInAllFormsWithoutColon ==
  (op = "find_forms"
     /\ ~(Len(arg.path) >= 2 /\ arg.path[2] = Colon)
     /\ ~(Len(arg.path) >= 3 /\ arg.path[3] = Colon)) =>
    SameInAllForms(ret.val)

\* "/c/c" in its four forms is the file "c" of the directory "c".
C4_Witness ==
  /\ op = "find_forms"
  /\ arg.path = <<Slash, 99, Slash, 99>>
  /\ IsOk(ret.val.drive)
  /\ ret.val.drive.val.some
  /\ ret.val.drive.val.res.kind = "File"
  /\ ret.val.drive.val.res.absolute_path = <<Slash, 99, Slash, 99>>
  /\ SameInAllForms(ret.val)

(***************************************************************************)
(* Decoding what is not all there (specification SpecDecode).  A header is *)
(* decoded from the first bytes of a container, with the right magic or a  *)
(* wrong one.  A session is opened on an image that lost up to MaxCut of   *)
(* its last bytes, with its name table or its payload table placed at the  *)
(* offset laid out or a few bytes before the end, and records up to index  *)
(* MaxIndex are decoded in it.                                             *)
(***************************************************************************)
MaxCut == 24

MaxIndex == 4

WrongMagic == <<113, 0, 101, 5>>

HeaderVersions == 1..4

Prefixes(b) == {SubSeq(b, 1, n) : n \in 0..Len(b)}

\* The version field as bytes: 2, 3, 256 and 2^24.
VersionFields == {<<0, 0, 0, 2>>, <<0, 0, 0, 3>>, <<0, 0, 1, 0>>, <<1, 0, 0, 0>>}

\* A header whose fields differ in every byte, and a byte behind it.
WideHeader(magic, version) ==
  magic \o version \o <<0, 0, 1, 2>> \o <<3, 4, 5, 6>> \o <<7, 8, 9, 10>>
        \o <<200, 201, 202, 203>> \o <<77>>

WrongMagicHeader == WrongMagic \o <<0, 1, 2, 3>>

HeaderImages ==
  UNION {Prefixes(HeaderBytes(magic, version, 63106, 24, 63064)) :
           magic \in {RCC_FILE_HEADER_MAGIC, WrongMagic}, version \in HeaderVersions}
    \cup UNION {Prefixes(WideHeader(magic, version)) :
                  magic \in {RCC_FILE_HEADER_MAGIC, WrongMagic}, version \in VersionFields}
    \cup {<<0, 0, 0>>, WrongMagicHeader}

Header ==
  /\ op = "init"
  /\ \E b \in HeaderImages :
       /\ bytes' = b
       /\ ret' = RCCFileHeaderReader_new(b)
  /\ op' = "header"
  /\ arg' = Nothing
  /\ UNCHANGED <<reader, build>>

\* The root holds the file "c" and the directory "ba", which holds "c".
DecodeNodes ==
  Tree(<<[name |-> NameC, dir |-> FALSE], [name |-> NameBa, dir |-> TRUE]>>,
       <<[name |-> NameC, dir |-> FALSE]>>)

\* How far before the end of the image a table is placed; 0 leaves it
\* where it was laid out.
Backs == {0, 1, 3, 6}

Placed(laid, back, len) == IF back = 0 \/ back > len THEN laid ELSE len - back

Load ==
  /\ ~reader.open
  /\ op = "init"
  /\ \E version \in Versions, cut \in 0..MaxCut, name_back \in Backs, data_back \in Backs :
       Let(SubSeq(Image(DecodeNodes, version), 1, Len(Image(DecodeNodes, version)) - cut),
           LAMBDA b :
             /\ bytes' = b
             /\ Opening(from_bytes(b, Layout(DecodeNodes, version).struct_offset,
                                   Placed(Layout(DecodeNodes, version).name_offset,
                                          name_back, Len(b)),
                                   Placed(Layout(DecodeNodes, version).data_offset,
                                          data_back, Len(b)),
                                   W(version))))
  /\ arg' = Nothing
  /\ UNCHANGED build

Derive ==
  /\ Idle
  /\ \E index \in 0..MaxIndex :
       /\ arg' = [index |-> index]
       /\ ret' = Resource_derive(build, reader, bytes, W(index))
  /\ op' = "derive"
  /\ UNCHANGED <<bytes, reader, build>>

\* The handles Resource::derive gives in the session.
Derived(bd, rd, b) ==
  {r.val : r \in {x \in {Resource_derive(bd, rd, b, W(index)) : index \in 0..MaxIndex} :
                    IsOk(x)}}

Name ==
  /\ Idle
  /\ \E res \in Derived(build, reader, bytes) :
       /\ arg' = [res |-> res]
       /\ ret' = Resource_name(reader, bytes, res)
  /\ op' = "name"
  /\ UNCHANGED <<bytes, reader, build>>

Hash ==
  /\ Idle
  /\ \E res \in Derived(build, reader, bytes) :
       /\ arg' = [res |-> res]
       /\ ret' = Resource_hash(reader, bytes, res)
  /\ op' = "hash"
  /\ UNCHANGED <<bytes, reader, build>>

Children ==
  /\ Idle
  /\ \E res \in Derived(build, reader, bytes) :
       /\ res.kind = "Directory"
       /\ arg' = [res |-> res]
       /\ ret' = children(build, reader, bytes, res)
  /\ op' = "children"
  /\ UNCHANGED <<bytes, reader, build>>

RawData ==
  /\ Idle
  /\ \E res \in Derived(build, reader, bytes) :
       /\ res.kind = "File"
       /\ arg' = [res |-> res]
       /\ ret' = raw_data(reader, bytes, res)
  /\ op' = "raw_data"
  /\ UNCHANGED <<bytes, reader, build>>

DecodePaths == {PosixPath(<<NameC>>), PosixPath(<<NameBa>>), PosixPath(<<NameBa, NameC>>)}

FindDecoding ==
  /\ Idle
  /\ \E path \in DecodePaths :
       /\ arg' = [path |-> path]
       /\ ret' = find(build, reader, bytes, path)
  /\ op' = "find"
  /\ UNCHANGED <<bytes, reader, build>>

\* children() of a directory that find returned.
FoundChildren ==
  /\ Idle
  /\ \E path \in DecodePaths \cup {<<Slash>>} :
       Let(find(build, reader, bytes, path), LAMBDA found :
         /\ IsOk(found)
         /\ found.val.some
         /\ found.val.res.kind = "Directory"
         /\ arg' = [dir |-> found.val.res]
         /\ ret' = children(build, reader, bytes, found.val.res))
  /\ op' = "found_children"
  /\ UNCHANGED <<bytes, reader, build>>

NextDecode ==
  \/ Header \/ Load \/ Derive \/ Name \/ Hash \/ Children \/ FoundChildren
  \/ RawData \/ FindDecoding \/ Drop

SpecDecode == Init /\ [][NextDecode]_vars

\* The bytes a header of this magic and version takes.
HeaderNeeds(b) ==
  IF Len(b) < 8 THEN 8
  ELSE IF WordLt(from_be_bytes(b, 4, 4), W(3)) THEN 20
  ELSE 24

\* Too short to hold every field that is read: fewer than 4 bytes, or the
\* right magic and a field behind it cut.
HeaderCutShort(b) ==
  \/ Len(b) < 4
  \/ SubSeq(b, 1, 4) = RCC_FILE_HEADER_MAGIC /\ Len(b) < HeaderNeeds(b)

\* C8: RCCFileHeaderReader::new on an image too short to hold every header
\* field it must read returns Error::IO.
C8_ShortHeaderIsIO ==
  (op = "header" /\ HeaderCutShort(bytes)) => ret.tag = "err" /\ ret.err = "IO"

RecordLen(rd) == IF WordLt(rd.format_version, W(2)) THEN 14 ELSE 22

RecordAt(rd, index) == rd.struct_offset + index * RecordLen(rd)

\* The record at this index decodes: its flags and its name can be read.
ChildDecodes(rd, b, index) ==
  /\ RecordAt(rd, index) + 6 <= Len(b)
  /\ IsOk(Resource_name(rd, b, Handle("File", RecordAt(rd, index))))

\* The child of dir the record at this index is: its kind from bit 0x02 of
\* its flags, its path that of dir joined with its name.
ChildAt(rd, b, dir, index) ==
  [kind          |-> IF BitAnd(b[RecordAt(rd, index) + 6], 2) > 0
                     THEN "Directory" ELSE "File",
   ptr           |-> RecordAt(rd, index),
   absolute_path |-> PathJoin(dir.absolute_path,
                              Resource_name(rd, b, Handle("File", RecordAt(rd, index))).val)]

\* children() gave `count` children from the record at index `first` on.
ListsChildren(rd, b, dir, count, first, r) ==
  IF \A k \in 0..(count - 1) : ChildDecodes(rd, b, first + k)
  THEN /\ IsOk(r)
       /\ Len(r.val) = count
       /\ \A k \in 0..(count - 1) : r.val[k + 1] = ChildAt(rd, b, dir, first + k)
  ELSE r.tag = "err"

\* C19: for a directory D returned by find, D.children() returns exactly
\* child_count resources, the k-th being the record at index
\* child_offset + k, its kind taken from its flags and its absolute path
\* that of D joined with its decoded name; if a child fails to decode the
\* call returns that error and no list.
C19_ChildrenListed ==
  op = "found_children" =>
    IF arg.dir.ptr + 14 > Len(bytes) THEN ret.tag = "err"
    ELSE ListsChildren(reader, bytes, arg.dir,
                       ((bytes[arg.dir.ptr + 7] * 256 + bytes[arg.dir.ptr + 8]) * 256
                          + bytes[arg.dir.ptr + 9]) * 256 + bytes[arg.dir.ptr + 10],
                       ((bytes[arg.dir.ptr + 11] * 256 + bytes[arg.dir.ptr + 12]) * 256
                          + bytes[arg.dir.ptr + 13]) * 256 + bytes[arg.dir.ptr + 14],
                       ret)

\* The root lists the file "c" and the directory "ba", in index order.
C19_Witness ==
  /\ op = "found_children"
  /\ arg.dir.absolute_path = <<Slash>>
  /\ IsOk(ret)
  /\ Len(ret.val) = 2
  /\ ret.val[1].kind = "File"
  /\ ret.val[1].absolute_path = PosixPath(<<NameC>>)
  /\ ret.val[2].kind = "Directory"
  /\ ret.val[2].absolute_path = PosixPath(<<NameBa>>)

\* The u32 and the usize held big-endian in the four bytes at offset o.
FieldWord(b, o) == Word(b[o + 1] * 256 + b[o + 2], b[o + 3] * 256 + b[o + 4])

FieldValue(b, o) == ((b[o + 1] * 256 + b[o + 2]) * 256 + b[o + 3]) * 256 + b[o + 4]

\* C16: the header decoder reads, big-endian, the magic at bytes 0-3, the
\* version at 4-7, struct_offset at 8-11, data_offset at 12-15, name_offset
\* at 16-19, and overall flags at 20-23 exactly when the version is 3 or
\* more; below 3 it reports no flags and needs only 20 bytes.
C16_HeaderFields ==
  op = "header" =>
    /\ IsOk(ret) =>
         /\ Len(bytes) >= 20
         /\ ret.val.magic = SubSeq(bytes, 1, 4)
         /\ ret.val.format_version = FieldWord(bytes, 4)
         /\ ret.val.struct_offset = FieldValue(bytes, 8)
         /\ ret.val.data_offset = FieldValue(bytes, 12)
         /\ ret.val.name_offset = FieldValue(bytes, 16)
         /\ ret.val.overall_flags =
              IF FieldValue(bytes, 4) >= 3 THEN Some(FieldWord(bytes, 20)) ELSE None
    /\ (Len(bytes) >= 20 /\ SubSeq(bytes, 1, 4) = <<113, 114, 101, 115>>) =>
         IF FieldValue(bytes, 4) >= 3 THEN IsOk(ret) <=> Len(bytes) >= 24
         ELSE IsOk(ret)
    /\ bytes = <<113, 114, 101, 115, 0, 0, 0, 3, 0, 0, 246, 130,
                 0, 0, 0, 24, 0, 0, 246, 88, 0, 0, 0, 0>> =>
         ret = Ok([magic          |-> <<113, 114, 101, 115>>,
                   format_version |-> W(3),
                   struct_offset  |-> 63106,
                   data_offset    |-> 24,
                   name_offset    |-> 63064,
                   overall_flags  |-> Some(W(0))])

\* A version 2^24 header of 25 bytes: its flags are read, its last byte is
\* not.
C16_Witness ==
  /\ op = "header"
  /\ bytes = WideHeader(RCC_FILE_HEADER_MAGIC, <<1, 0, 0, 0>>)
  /\ IsOk(ret)
  /\ ret.val.format_version = Word(256, 0)
  /\ ret.val.struct_offset = 258
  /\ ret.val.overall_flags = Some(Word(51401, 51915))

\* C17: for every image of at least 4 bytes whose first four bytes are not
\* the magic, the header decoder returns InvalidHeaderMagic with those four
\* bytes and the expected magic, whatever follows them.
C17_WrongMagicRejected ==
  (op = "header" /\ Len(bytes) >= 4 /\ SubSeq(bytes, 1, 4) # <<113, 114, 101, 115>>) =>
    ret = ErrWith("InvalidHeaderMagic", "",
                  [received |-> SubSeq(bytes, 1, 4), expected |-> <<113, 114, 101, 115>>])

\* The input of the test suite, and four wrong bytes with nothing behind.
C17_Witness ==
  /\ op = "header"
  /\ bytes \in {WrongMagicHeader, WrongMagic}
  /\ ret.tag = "err"
  /\ ret.err = "InvalidHeaderMagic"
  /\ ret.info.received = <<113, 0, 101, 5>>

(***************************************************************************)
(* The compression of a file (specification SpecFlags): compression_algo   *)
(* on a file record whose flags word is one of the MaxFlags + 1 lowest     *)
(* values or one of the MaxFlags + 1 highest, the directory bit clear.     *)
(***************************************************************************)
MaxFlags == 255

FileFlags ==
  {f \in (0..MaxFlags) \cup {U16 - 1 - g : g \in 0..MaxFlags} : BitAnd(f, Directory) = 0}

\* A lone version 1 record of a file with these flags.
FlagRecord(flags) ==
  U32BE(0) \o U16BE(flags) \o U16BE(0) \o U16BE(0) \o U32BE(0)

InitFlags == Given([flags : FileFlags])

CompressionAlgo ==
  /\ op = "given"
  /\ bytes' = FlagRecord(arg.flags)
  /\ reader' = from_bytes(FlagRecord(arg.flags), 0, 0, 0, W(1)).val
  /\ ret' = Try(Resource_derive(build, from_bytes(FlagRecord(arg.flags), 0, 0, 0, W(1)).val,
                                FlagRecord(arg.flags), Zero),
                LAMBDA res : compression_algo(FlagRecord(arg.flags), res))
  /\ op' = "compression_algo"
  /\ UNCHANGED <<build, arg>>

NextFlags == CompressionAlgo

SpecFlags == InitFlags /\ [][NextFlags]_vars

\* C10: bit 0x01 alone gives zlib, bit 0x04 alone gives zstd, neither gives
\* none, and zlib wins when both are set, whatever the other bits are.
C10_ZlibWins ==
  op = "compression_algo" =>
    ret = Ok(IF BitAnd(arg.flags, 1) = 1 THEN "Zlib"
             ELSE IF BitAnd(arg.flags, 4) = 4 THEN "Zstd"
             ELSE "None")

(***************************************************************************)
(* Opening a session (specification SpecOpen).  from_bytes is called on an *)
(* image of up to MaxImageLen bytes with offsets up to MaxOffset and a     *)
(* version up to MaxVersion or the largest u32; from_rcc is called on a    *)
(* container made of a header alone, whole or cut short, with either       *)
(* magic, a version up to MaxVersion and offsets at or around its end.     *)
(***************************************************************************)
MaxImageLen == 3

MaxOffset == 4

MaxVersion == 5

FormatVersions == {W(v) : v \in 0..MaxVersion} \cup {Word(65535, 65535)}

RccOffsets == {0, 19, 23, 24}

RccImages ==
  UNION {Prefixes(HeaderBytes(magic, version, struct_offset, data_offset, name_offset)
                    \o <<0>>) :
           magic \in {RCC_FILE_HEADER_MAGIC, WrongMagic}, version \in 1..MaxVersion,
           struct_offset \in RccOffsets, data_offset \in RccOffsets,
           name_offset \in RccOffsets}

\* What a constructor leaves: the session if it succeeded, and its result.
Constructed(name, opened) ==
  /\ reader' = IF IsOk(opened) THEN opened.val ELSE NoReader
  /\ op' = name
  /\ ret' = opened

FromBytes ==
  /\ op = "init"
  /\ \E len \in 0..MaxImageLen, format_version \in FormatVersions :
       \E struct_offset \in 0..MaxOffset, name_offset \in 0..MaxOffset,
          data_offset \in 0..MaxOffset :
         /\ bytes' = [i \in 1..len |-> 0]
         /\ arg' = [struct_offset  |-> struct_offset,
                    name_offset    |-> name_offset,
                    data_offset    |-> data_offset,
                    format_version |-> format_version]
         /\ Constructed("from_bytes",
                        from_bytes([i \in 1..len |-> 0], struct_offset, name_offset,
                                   data_offset, format_version))
  /\ UNCHANGED build

FromRcc ==
  /\ op = "init"
  /\ \E b \in RccImages :
       /\ bytes' = b
       /\ Constructed("from_rcc", from_rcc(b))
  /\ arg' = Nothing
  /\ UNCHANGED build

NextOpen == FromBytes \/ FromRcc

SpecOpen == Init /\ [][NextOpen]_vars

UnsupportedVersion(received) ==
  ErrWith("UnsupportedVersion", "", [received |-> received, expected |-> W(3)])

\* The offsets given to from_bytes all lie within the image.
OffsetsWithin(len, struct_offset, name_offset, data_offset) ==
  struct_offset < len /\ name_offset < len /\ data_offset < len

\* A container with the right magic and a version field above 3.
AboveThree(b) ==
  Len(b) >= 8 /\ SubSeq(b, 1, 4) = <<113, 114, 101, 115>> /\ FieldValue(b, 4) > 3

C12_InvalidOffsetExactly ==
  op = "from_bytes" =>
    /\ (ret.tag = "err" /\ ret.err = "InvalidOffset")
         <=> ~OffsetsWithin(Len(bytes), arg.struct_offset, arg.name_offset, arg.data_offset)
    /\ arg.struct_offset >= Len(bytes) =>
         ret = ErrWith("InvalidOffset", "",
                       [name |-> "struct_offset", received |-> arg.struct_offset,
                        expected |-> Len(bytes)])
    /\ (arg.struct_offset < Len(bytes) /\ arg.name_offset >= Len(bytes)) =>
         ret = ErrWith("InvalidOffset", "",
                       [name |-> "name_offset", received |-> arg.name_offset,
                        expected |-> Len(bytes)])
    /\ (arg.struct_offset < Len(bytes) /\ arg.name_offset < Len(bytes)
          /\ arg.data_offset >= Len(bytes)) =>
         ret = ErrWith("InvalidOffset", "",
                       [name |-> "data_offset", received |-> arg.data_offset,
                        expected |-> Len(bytes)])
    /\ bytes = <<>> => (ret.tag = "err" /\ ret.err = "InvalidOffset")

\* Only the last offset is the length of the image.
C12_Witness ==
  /\ op = "from_bytes"
  /\ Len(bytes) = 2
  /\ arg.struct_offset = 1
  /\ arg.name_offset = 0
  /\ arg.data_offset = 2
  /\ ret.tag = "err"
  /\ ret.info.name = "data_offset"

(***************************************************************************)
(* Records on their own (specification SpecRecord).  A lone record, laid   *)
(* out as the fixtures of the record tests are: the record, two bytes of   *)
(* spacing, the name table, two bytes of spacing, the payload table; its   *)
(* name entry and its payload entry lie up to MaxSpacing bytes into their  *)
(* tables.  Every accessor of the record is called.                        *)
(***************************************************************************)
MaxSpacing == 2

NameImages == <<105, 109, 97, 103, 101, 115>>

NameSmallJpg == <<115, 109, 97, 108, 108, 46, 106, 112, 103>>

HelloWorld == <<104, 101, 108, 108, 111, 32, 119, 111, 114, 108, 100, 33>>

U64(hi, lo) == [hi |-> hi, lo |-> lo]

\* 1173311852 ms, -1 ms and a time beyond every date.
Stamps == {U64(W(0), Word(17903, 20844)),
           U64(Word(65535, 65535), Word(65535, 65535)),
           U64(Word(32767, 65535), Word(65535, 65535))}

Zeros(n) == [i \in 1..n |-> 0]

DirFixture(version, name, hash, name_at, count, first) ==
  [dir |-> TRUE, version |-> version, name |-> name, hash |-> hash,
   name_at |-> name_at, flags |-> Directory, count |-> count, first |-> first]

FileFixture(version, name, hash, name_at, flags, code, lang, data_at, stamp, payload) ==
  [dir |-> FALSE, version |-> version, name |-> name, hash |-> hash,
   name_at |-> name_at, flags |-> flags, territory |-> code, language |-> lang,
   data_at |-> data_at, stamp |-> stamp, payload |-> payload]

\* The fixtures of the test suites of dir.rs and file.rs.
DirTestFixture == DirFixture(3, NameImages, Word(1795, 32195), 0, W(7), W(175))

FileTestFixture ==
  FileFixture(3, NameSmallJpg, Word(2095, 42247), 0, 0, 2, 59, 5,
              U64(W(0), Word(17903, 20844)), HelloWorld)

FixtureRecord(f) ==
  U32BE(f.name_at) \o U16BE(f.flags)
    \o (IF f.dir THEN WordBE(f.count) \o WordBE(f.first)
        ELSE U16BE(f.territory) \o U16BE(f.language) \o U32BE(f.data_at)
               \o (IF f.version >= 2
                   THEN WordBE(f.stamp.hi) \o WordBE(f.stamp.lo)
                   ELSE <<>>))

FixtureData(f) ==
  IF f.dir THEN <<0, 0>>
  ELSE Zeros(f.data_at) \o U32BE(Len(f.payload)) \o f.payload

FixtureNameOffset(f) == Len(FixtureRecord(f)) + 2

FixtureDataOffset(f) ==
  FixtureNameOffset(f) + f.name_at + Len(NameEntry(f)) + 2

FixtureImage(f) ==
  FixtureRecord(f) \o <<255, 255>> \o Zeros(f.name_at) \o NameEntry(f)
    \o <<255, 255>> \o FixtureData(f)

\* The session the tests open on a fixture.
FixtureReader(f) ==
  from_bytes(FixtureImage(f), 0, FixtureNameOffset(f), FixtureDataOffset(f),
             W(f.version))

RecordVersions == 1..3

RecordNames == {[name |-> NameImages, hash |-> Word(1795, 32195)],
                [name |-> NameC, hash |-> Word(258, 772)]}

DirFixtures ==
  {DirFixture(version, n.name, n.hash, name_at, count, first) :
     version \in RecordVersions, n \in RecordNames, name_at \in 0..MaxSpacing,
     count \in {W(7), Word(258, 772)}, first \in {W(175), Word(1286, 1800)}}

FileFixtures ==
  {FileFixture(version, NameSmallJpg, Word(2095, 42247), name_at, 0, code, lang,
               data_at, stamp, payload) :
     version \in RecordVersions, name_at \in 0..MaxSpacing,
     code \in {2, 65535}, lang \in {59, 65535}, data_at \in 0..MaxSpacing,
     stamp \in Stamps, payload \in {<<>>, HelloWorld}}

Fixtures == DirFixtures \union FileFixtures \union {DirTestFixture, FileTestFixture}

\* What the accessors of a directory return.
DirectoryAccessors(bd, rd, b, res) ==
  [kind        |-> res.kind,
   name        |-> Resource_name(rd, b, res),
   hash        |-> Resource_hash(rd, b, res),
   child_count |-> child_count(b, res),
   child_offset |-> child_offset(b, res)]

\* What the accessors of a file return.
FileAccessors(bd, rd, b, res) ==
  [kind          |-> res.kind,
   name          |-> Resource_name(rd, b, res),
   hash          |-> Resource_hash(rd, b, res),
   territory     |-> territory(b, res),
   language      |-> language(b, res),
   data_offset   |-> file_data_offset(b, res),
   last_modified |-> last_modified(rd, b, res),
   raw_data      |-> raw_data(rd, b, res)]

\* Resource::derive on record 0, then every accessor of the handle.
AccessorsOf(bd, rd, b) ==
  Try(Resource_derive(bd, rd, b, Zero), LAMBDA res :
    IF res.kind = "Directory" THEN Ok(DirectoryAccessors(bd, rd, b, res))
    ELSE Ok(FileAccessors(bd, rd, b, res)))

OpenFixture ==
  /\ op = "init"
  /\ \E f \in Fixtures :
       /\ bytes' = FixtureImage(f)
       /\ arg' = f
       /\ Constructed("from_bytes", FixtureReader(f))
  /\ UNCHANGED build

Accessors ==
  /\ op = "from_bytes"
  /\ reader.open
  /\ op' = "accessors"
  /\ ret' = AccessorsOf(build, reader, bytes)
  /\ UNCHANGED <<bytes, reader, build, arg>>

NextRecord == OpenFixture \/ Accessors

SpecRecord == Init /\ [][NextRecord]_vars

\* The bytes of the two test fixtures, as the tests write them.
DirTestBytes ==
  <<0, 0, 0, 0,  0, 2,  0, 0, 0, 7,  0, 0, 0, 175,  255, 255,
    0, 6,  7, 3, 125, 195,  0, 105, 0, 109, 0, 97, 0, 103, 0, 101, 0, 115,
    255, 255,  0, 0>>

FileTestBytes ==
  <<0, 0, 0, 0,  0, 0,  0, 2,  0, 59,  0, 0, 0, 5,
    0, 0, 0, 0, 69, 239, 81, 108,  255, 255,
    0, 9,  8, 47, 165, 7,
    0, 115, 0, 109, 0, 97, 0, 108, 0, 108, 0, 46, 0, 106, 0, 112, 0, 103,
    255, 255,  0, 0, 0, 0, 0,  0, 0, 0, 12>> \o HelloWorld

\* A code the enumeration knows comes back, any other is invalid data.
Repr(code) == IF code \in UnknownCodes THEN Err("InvalidData", "") ELSE Ok(code)

DirectoryFieldsRead ==
  /\ ret.val.kind = "Directory"
  /\ ret.val.name = Ok(arg.name)
  /\ ret.val.hash = Ok(arg.hash)
  /\ ret.val.child_count = Ok(arg.count)
  /\ ret.val.child_offset = Ok(arg.first)

FileFieldsRead ==
  /\ ret.val.kind = "File"
  /\ ret.val.name = Ok(arg.name)
  /\ ret.val.hash = Ok(arg.hash)
  /\ ret.val.territory = Repr(arg.territory)
  /\ ret.val.language = Repr(arg.language)
  /\ ret.val.data_offset = Ok(W(arg.data_at))
  /\ ret.val.last_modified =
       Ok(IF arg.version < 2 \/ arg.stamp.hi.hi = 32767 THEN None
          ELSE Some(arg.stamp))
  /\ ret.val.raw_data = Ok(arg.payload)

\* C18: every accessor reads its field at the offset the record layout gives
\* it: a directory's child count at +6 and first child at +10; a file's
\* territory at +6, language at +8, payload offset at +10 and, from format
\* version 2 on, modification time at +14; the name after a 2-byte length and
\* a 4-byte hash, the payload after a 4-byte size.  The fixtures of the test
\* suites are laid out byte for byte as the tests write them.
C18_FieldsAtLayoutOffsets ==
  /\ FixtureImage(DirTestFixture) = DirTestBytes
  /\ FixtureNameOffset(DirTestFixture) = 16
  /\ FixtureDataOffset(DirTestFixture) = 36
  /\ FixtureImage(FileTestFixture) = FileTestBytes
  /\ FixtureNameOffset(FileTestFixture) = 24
  /\ FixtureDataOffset(FileTestFixture) = 50
  /\ op = "accessors" =>
       /\ IsOk(ret)
       /\ IF arg.dir THEN DirectoryFieldsRead ELSE FileFieldsRead

C18_Witness ==
  /\ op = "accessors"
  /\ arg = FileTestFixture
  /\ IsOk(ret)
  /\ ret.val.territory = Ok(2)
  /\ ret.val.language = Ok(59)
  /\ ret.val.data_offset = Ok(W(5))
  /\ ret.val.last_modified = Ok(Some(U64(W(0), Word(17903, 20844))))
  /\ ret.val.raw_data = Ok(HelloWorld)

(***************************************************************************)
(* Payloads (specification SpecPayload).  A lone file record, laid out as  *)
(* the fixture of the file test is, with each compression flag and a       *)
(* payload of each kind: stored bytes, a size prefix and a zlib stream, a  *)
(* zstd frame, and bytes that are none of these.  size() and data() are    *)
(* called on it.                                                           *)
(***************************************************************************)
MaxContentLen == 2

Filler == {7}

Contents == UNION {[1..n -> Filler] : n \in 0..MaxContentLen}

ZlibStream(content) == <<120, Len(content)>> \o content

ZstdFrame(declared, content) == <<40, declared, Len(content)>> \o content

ZlibPayloads ==
  {U32BE(prefix) \o ZlibStream(content) :
     prefix \in 0..(MaxContentLen + 1), content \in Contents}

ZstdPayloads ==
  {ZstdFrame(declared, content) :
     declared \in 0..(MaxContentLen + 1) \union {255}, content \in Contents}

Payloads ==
  Contents \union ZlibPayloads \union ZstdPayloads \union {<<0, 0>>, <<0, 0, 0, 1, 9>>}

CompressionFlags ==
  {0, ZlibCompression, ZstdCompression, BitOr(ZlibCompression, ZstdCompression)}

PayloadFixtures ==
  {FileFixture(3, NameSmallJpg, Word(2095, 42247), 0, flags, 2, 59, 0,
               U64(W(0), Word(17903, 20844)), payload) :
     flags \in CompressionFlags, payload \in Payloads}

OpenPayload ==
  /\ op = "init"
  /\ \E f \in PayloadFixtures :
       /\ bytes' = FixtureImage(f)
       /\ arg' = f
       /\ Constructed("from_bytes", FixtureReader(f))
  /\ UNCHANGED build

\* Resource::derive on record 0, then size() and data() of the file.
SizeAndDataOf(bd, rd, b) ==
  Try(Resource_derive(bd, rd, b, Zero), LAMBDA res :
    Ok([size |-> file_size(rd, b, res), data |-> file_data(rd, b, res)]))

SizeAndData ==
  /\ op = "from_bytes"
  /\ reader.open
  /\ op' = "size_and_data"
  /\ ret' = SizeAndDataOf(build, reader, bytes)
  /\ UNCHANGED <<bytes, reader, build, arg>>

NextPayload == OpenPayload \/ SizeAndData

SpecPayload == Init /\ [][NextPayload]_vars

BothSucceed ==
  /\ op = "size_and_data"
  /\ IsOk(ret)
  /\ IsOk(ret.val.size)
  /\ IsOk(ret.val.data)

\* C15: whenever size() and data() both succeed on a file, size() is the
\* number of bytes of data(), whatever the compression.
C15_SizeIsDataLength ==
  BothSucceed => ret.val.size.val = Len(ret.val.data.val)

(***************************************************************************)
(* Lookups on images that are not well formed (specification SpecResolve). *)
(* The image is that of a small tree in which the child count and the      *)
(* first child of one directory record are overwritten with any values:    *)
(* ranges that lead back to a record already met, ranges past the end of   *)
(* the table, values near 2^32.  The client opens a session on it and      *)
(* looks a path up; the result is kept with the probes of the lookup.      *)
(***************************************************************************)
\* The file "c" before the directory "ba", and "ba" before the file "aq".
ResolveTops ==
  {<<[name |-> NameC, dir |-> FALSE], [name |-> NameBa, dir |-> TRUE]>>,
   <<[name |-> NameBa, dir |-> TRUE], [name |-> NameAq, dir |-> FALSE]>>}

ResolveSub == <<[name |-> NameC, dir |-> FALSE]>>

\* 0xDB6DB6D6 children from 0x5B6DB6E0 on: the first midpoint is record
\* address 26 of a table of 14-byte records, and left + right passes 2^32
\* on the second probe.
WrapCount == Word(56173, 46806)

WrapFirst == Word(23405, 46816)

\* 1, 2, 0xFFFFFFFF and WrapCount.
CorruptCounts == {W(1), W(2), Word(65535, 65535), WrapCount}

\* 0, 1, 2, 0x20000000, 0xFFFFFFFF and WrapFirst.
CorruptFirsts == {W(0), W(1), W(2), Word(8192, 0), Word(65535, 65535), WrapFirst}

Stride(version) == IF version >= 2 THEN 22 ELSE 14

\* The image with the child count and first child of the record at `at`
\* overwritten.
Corrupt(image, at, count, first) ==
  [i \in DOMAIN image |->
     IF i > at + 6 /\ i <= at + 14
     THEN (WordBE(count) \o WordBE(first))[i - (at + 6)]
     ELSE image[i]]

CorruptImage(nodes, version, k, count, first) ==
  Corrupt(Image(nodes, version),
          Layout(nodes, version).struct_offset + k * Stride(version), count, first)

\* The session from_bytes opens on the image, at the offsets of Layout.
OpenCorruptImage(nodes, version, k, count, first) ==
  Let(Layout(nodes, version), LAMBDA at :
    from_bytes(CorruptImage(nodes, version, k, count, first), at.struct_offset,
               at.name_offset, at.data_offset, W(version)))

OpenCorrupt ==
  /\ ~reader.open
  /\ op = "init"
  /\ \E top \in ResolveTops, version \in Versions :
       \E k \in DOMAIN Tree(top, ResolveSub), count \in CorruptCounts,
          first \in CorruptFirsts :
         /\ IsDirNode(Tree(top, ResolveSub)[k])
         /\ bytes' = CorruptImage(Tree(top, ResolveSub), version, k - 1, count, first)
         /\ arg' = [record |-> k - 1, count |-> count, first |-> first]
         /\ Opening(OpenCorruptImage(Tree(top, ResolveSub), version, k - 1, count,
                                     first))
  /\ UNCHANGED build

Resolve ==
  /\ Idle
  /\ \E segments \in SegmentLists(Names, MaxSegments) :
       /\ op' = "resolve"
       /\ arg' = [path |-> PosixPath(segments), segments |-> segments]
       /\ ret' = find_traced(build, reader, bytes, PosixPath(segments))
  /\ UNCHANGED <<bytes, reader, build>>

NextResolve == OpenCorrupt \/ Resolve

SpecResolve == Init /\ [][NextResolve]_vars

\* The probes of a lookup, in order, whatever the search.
RECURSIVE Flat(_, _)
Flat(searches, k) ==
  IF k = 0 THEN <<>> ELSE Flat(searches, k - 1) \o searches[k]

AllProbes == Flat(ret.probes, Len(ret.probes))

\* C21: during one lookup no record is decoded twice, on any image: the
\* records probed, by one search or by the searches of successive segments,
\* are pairwise distinct.
C21_NoRecordTwice ==
  op = "resolve" =>
    \A i, j \in DOMAIN AllProbes : i < j => AllProbes[i].index # AllProbes[j].index

\* x + y and x * k as exact integers fit 32 bits.
SumExact(x, y) == x.hi + y.hi + (x.lo + y.lo) \div U16 < U16

ProductExact(x, k) == x.hi * k + (x.lo * k) \div U16 < U16

StrideOf(rd) == IF WordLt(rd.format_version, W(2)) THEN 14 ELSE 22

\* C22: the index arithmetic of a lookup is exact, on any image: no
\* addition or multiplication ends the lookup in an overflow panic, and at
\* every probe neither left + right nor index * stride passes 2^32 - 1.
C22_IndexArithmeticExact ==
  op = "resolve" =>
    /\ ret.r.tag # "panic"
    /\ \A i \in DOMAIN AllProbes :
         /\ SumExact(AllProbes[i].left, AllProbes[i].right)
         /\ ProductExact(AllProbes[i].index, StrideOf(reader))

\* From one probe to the next of a search, one end of the interval moves
\* toward the other.
Shrinks(p, q) ==
  \/ q.left = p.left /\ WordLt(q.right, p.right)
  \/ q.right = p.right /\ WordLt(p.left, q.left)

\* C23: a lookup ends with a resource, "not found" or an error, on any
\* image and any path: it runs at most one search per segment of the path,
\* and within a search the interval shrinks from each probe to the next.
C23_FindTerminates ==
  op = "resolve" =>
    /\ ret.r.tag \in {"ok", "err"}
    /\ Len(ret.probes) <= Len(arg.segments)
    /\ \A s \in DOMAIN ret.probes :
         \A i \in DOMAIN ret.probes[s] :
           i < Len(ret.probes[s]) => Shrinks(ret.probes[s][i], ret.probes[s][i + 1])
=============================================================================
